---- MODULE Spec2Model ----
(***************************************************************************)
(* A model of the deduplication core of visionscribe:                      *)
(*   VideoProcessor.deduplicate_frames   (video_processor.py)             *)
(*   TextDeduplicator.deduplicate_texts  (text_deduplicator.py)           *)
(*   calculate_text_similarity           (utils/text_similarity.py)       *)
(*   the run / ocr / analyze commands    (main.py)                        *)
(* Similarity scores and thresholds are percentages (0.95 is 95); a text  *)
(* similarity is the exact fraction [num, den].                            *)
(***************************************************************************)
EXTENDS Integers, Sequences, FiniteSets, TLC

VARIABLES
    frames,          \* deduplicate_frames: the input list of Frame
    readable,        \* ids of the frames whose image file cv2.imread can load
    ssim,            \* the SSIM score of every (later frame, earlier frame) pair
    threshold,       \* deduplicate_frames: the threshold argument
    unique_frames,   \* deduplicate_frames: the retained list
    idx,             \* deduplicate_frames: position of the loop over frames[1:]
    ncompare,        \* number of _calculate_frame_similarity calls made so far
    fpc,             \* deduplicate_frames: "start", "loop", "done" ("off": not running)
    first_unique,    \* the list the first call of deduplicate_frames returned
    phase,           \* which call is running: "first", "again", "raised" ("off")
    text_blocks,     \* deduplicate_texts: the input list of text block dicts
    dedup_config,    \* TextDeduplicator.config, as given to the constructor
    unique_blocks,   \* the list deduplicate_texts returned for text_blocks
    reclustered,     \* the list deduplicate_texts returned for its own output
    raised_blocks,   \* the list returned for text_blocks under a raised threshold
    tpc,             \* "start", "done", "redone", "raised" ("off": not running)
    cmd,             \* the command being executed: "run", "ocr", "analyze", "build" ("off")
    ppc,             \* position in the command
    conf_floor,      \* the configured OCR confidence floor, in percent
    video_ok,        \* run: whether cv2.VideoCapture can open the input file
    nimages,         \* frames the video yields / image files in frames_dir
    format,          \* run --format
    dedup_flag,      \* analyze --dedup
    src_exists,      \* whether <output_dir>/code/src exists before the command
    run_frames,      \* run: frames
    run_blocks,      \* run: text_blocks; analyze: all_texts
    run_unique,      \* run: unique_texts
    ocr_data,        \* ocr: the "frames" list of the JSON file it writes
    project,         \* the files of the reconstructed Project's root directory
    dedup_seen,      \* the blocks that were handed to deduplicate_texts
    recon_seen,      \* the blocks that were handed to reconstruct_project
    artifacts,       \* what the command has created under output_dir
    exit_code,       \* the process exit status (-1 while running)
    stages,          \* the processing calls the command has made, in order
    failure,         \* the call whose exception the handler caught ("none")
    s_text1,         \* calculate_text_similarity: the text1 argument
    s_text2,         \* calculate_text_similarity: the text2 argument
    s_method,        \* calculate_text_similarity: the method argument
    s_result,        \* the score returned for (text1, text2, method)
    s_reverse,       \* the score returned for (text2, text1, method)
    s_error,         \* the exception the call raised ("none": it returned)
    s_clean,         \* clean_text(text1)
    s_reclean,       \* clean_text applied to s_clean
    s_helpers,       \* the scores of the helpers called on (text1, text2)
    spc,             \* "start", "compared", "normalized", "scored" ("off")
    opened,          \* extract_frames: whether cap.isOpened() after VideoCapture
    native_fps,      \* extract_frames: video_info.fps, the rate the file reports
    fps,             \* extract_frames: the fps argument
    max_frames,      \* extract_frames: config.max_frames
    skip_blurry,     \* extract_frames: config.skip_blurry
    video_len,       \* the number of frames cap.read() yields before it fails
    blurry,          \* the positions in the video of the frames _is_blurry rejects
    frame_interval,  \* extract_frames: frame_interval
    frame_count,     \* extract_frames: frame_count
    extracted_count, \* extract_frames: extracted_count
    extracted,       \* extract_frames: the list frames
    raised,          \* the exception extract_frames raised ("none")
    epc              \* extract_frames: "start", "loop", "done", "raised" ("off")

fvars == <<frames, readable, ssim, threshold, unique_frames, idx, ncompare, fpc,
           first_unique, phase>>

tvars == <<text_blocks, dedup_config, unique_blocks, reclustered, raised_blocks, tpc>>

pvars == <<cmd, ppc, conf_floor, video_ok, nimages, format, dedup_flag, src_exists,
           run_frames, run_blocks, run_unique, ocr_data, project, dedup_seen,
           recon_seen, artifacts, exit_code, stages, failure>>

svars == <<s_text1, s_text2, s_method, s_result, s_reverse, s_error, s_clean,
           s_reclean, s_helpers, spc>>

evars == <<opened, native_fps, fps, max_frames, skip_blurry, video_len, blurry,
           frame_interval, frame_count, extracted_count, extracted, raised, epc>>

vars == <<fvars, tvars, pvars, svars, evars>>

-----------------------------------------------------------------------------
(* Bounds and input domains *)

MaxFrames == 4

DefaultThreshold == 95

\* SSIM outcomes: unrelated, exactly the default threshold, identical images.
Levels == {0, DefaultThreshold, 100}

Thresholds == {50, DefaultThreshold}

MaxBlocks == 3

\* Characters are "a", "b" (lower case), "A" (upper case), the blank, and
\* the comma, which is not in the class of characters clean_text keeps.
Whitespace == {" "}

Stripped == {","}

\* The texts OCR may return: empty, a word, the same word in upper case, the
\* word followed by a stray comma, another word, and a two-word line.
Texts == {<<>>, <<"a">>, <<"A">>, <<"a", ",">>, <<"b">>, <<"a", " ", "b">>}

Confidences == {70, 90}

TextThresholds == {50, 95}

MaxImages == 3

\* The confidence every block of the placeholder TextExtractor carries.
MockConfidence == 90

\* The default floor of "ocr --confidence", and a stricter one.
DefaultFloor == 80

ConfidenceFloors == {DefaultFloor, 95}

Formats == {"code", "docs", "both"}

\* The longest text of which every spelling is drawn.
MaxTextLen == 2

Chars == {"a", "b", "A"} \cup Whitespace \cup Stripped

Strings(n) == UNION {[1..k -> Chars] : k \in 0..n}

\* Longer texts: a stray comma before a word, a two-word line, a comma
\* between two words, and a line of two two-letter words.
LongTexts == {<<",", " ", "a">>, <<"a", " ", "b">>,
              <<"a", " ", ",", " ", "b">>, <<"a", "b", " ", "a", "a">>}

SimTexts == Strings(MaxTextLen) \cup LongTexts

\* The longest video, in frames.
MaxVideoFrames == 4

\* The rates a video file may report: none, and 1, 2 and 4 frames a second.
NativeRates == {0, 1, 2, 4}

\* The values of the fps argument: none (0), the default 1, and 2.
RequestedRates == {0, 1, 2}

\* VideoProcessor(): max_frames=1000
DefaultMaxFrames == 1000

\* The values of config.max_frames: a count of frames, so never negative.
FrameCaps == {0, 2, DefaultMaxFrames}

\* The method names the dispatcher tests for, and one it does not know.
Methods == {"cosine", "jaccard", "levenshtein", "word_overlap"}

MethodNames == Methods \cup {"soundex"}

-----------------------------------------------------------------------------
(* Frames *)

\* Frame(id, image_path, timestamp): extract_frames numbers the frames
\* 0, 1, ... and names the image file after the id.
MkFrame(k) == [id |-> k, timestamp |-> k]

FrameList(n) == [k \in 1..n |-> MkFrame(k - 1)]

\* The (frame, unique_frame) pairs deduplicate_frames can compare: the
\* candidate is always later in the list than the retained frame.
Pairs(n) == {p \in (0..(n - 1)) \X (0..(n - 1)) : p[2] < p[1]}

\* An image that cannot be loaded taken for identical to every other.
_calculate_frame_similarity_unloaded(frame1, frame2) ==
    IF frame1.id \notin readable \/ frame2.id \notin readable
    THEN 100
    ELSE ssim[<<frame1.id, frame2.id>>]

_calculate_frame_similarity(frame1, frame2) ==
    IF frame1.id \notin readable \/ frame2.id \notin readable
    THEN 0
    ELSE ssim[<<frame1.id, frame2.id>>]

\* The inner loop with the comparison the wrong way round: a frame is taken
\* for a duplicate of a retained frame it is no more similar to than the
\* threshold.
FirstHitAtMost(frame, uniq) ==
    LET hits == {j \in 1..Len(uniq) :
                    _calculate_frame_similarity(frame, uniq[j]) <= threshold}
    IN  IF hits = {} THEN 0 ELSE CHOOSE j \in hits : \A h \in hits : j <= h

\* The inner loop: the retained frames are compared in order until the first
\* one whose similarity exceeds the threshold (break).
FirstHit(frame, uniq) ==
    LET hits == {j \in 1..Len(uniq) :
                    _calculate_frame_similarity(frame, uniq[j]) > threshold}
    IN  IF hits = {} THEN 0 ELSE CHOOSE j \in hits : \A h \in hits : j <= h

is_duplicate(frame, uniq) == FirstHit(frame, uniq) # 0

CallsMade(frame, uniq) ==
    IF is_duplicate(frame, uniq) THEN FirstHit(frame, uniq) ELSE Len(uniq)

\* The guard taken for "fewer than two frames".
AtMostOneFrame(fs) == Len(fs) <= 1

\* not frames
NoFrames(fs) == fs = <<>>

RetainFront(uniq, frame) == <<frame>> \o uniq

Retain(uniq, frame) == Append(uniq, frame)

-----------------------------------------------------------------------------
(* Text similarity (utils/text_similarity.py). A text is a sequence of     *)
(* characters; a score is the fraction num/den.                            *)

Range(s) == {s[i] : i \in DOMAIN s}

Score(n, d) == [num |-> n, den |-> d]

\* similarity >= t, for a threshold t in percent
AtLeast(sim, t) == sim.num * 100 >= t * sim.den

\* similarity < t
Below(sim, t) == sim.num * 100 < t * sim.den

RECURSIVE SplitFrom(_, _, _, _)
SplitFrom(text, i, cur, acc) ==
    IF i > Len(text)
    THEN IF cur = <<>> THEN acc ELSE Append(acc, cur)
    ELSE IF text[i] \in Whitespace
    THEN SplitFrom(text, i + 1, <<>>, IF cur = <<>> THEN acc ELSE Append(acc, cur))
    ELSE SplitFrom(text, i + 1, Append(cur, text[i]), acc)

\* str.split(): the maximal runs of non-whitespace characters, in order
split(text) == SplitFrom(text, 1, <<>>, <<>>)

RECURSIVE join(_)
\* ' '.join(words)
join(words) ==
    IF words = <<>> THEN <<>>
    ELSE IF Len(words) = 1 THEN words[1]
    ELSE words[1] \o <<" ">> \o join(Tail(words))

\* str.lower() on one character
lower(c) == IF c = "A" THEN "a" ELSE c

NotStripped(c) == c \notin Stripped

clean_text(text) ==
    LET joined == join(split(text))
        kept   == SelectSeq(joined, NotStripped)
    IN  [i \in 1..Len(kept) |-> lower(kept[i])]

_jaccard_similarity(text1, text2) ==
    LET words1 == Range(split(text1))
        words2 == Range(split(text2))
        intersection == Cardinality(words1 \cap words2)
        union == Cardinality(words1 \cup words2)
    IN  IF union = 0 THEN Score(0, 1) ELSE Score(intersection, union)

\* The overlap as a share of the first text's words only.
_word_overlap_similarity_first(text1, text2) ==
    LET words1 == split(text1)
        words2 == split(text2)
        overlap == Cardinality(Range(words1) \cap Range(words2))
        total == Cardinality(Range(words1))
    IN  IF words1 = <<>> \/ words2 = <<>> THEN Score(0, 1)
        ELSE IF total > 0 THEN Score(overlap, total) ELSE Score(0, 1)

\* The total counted over the word lists, not over the union of the sets.
_word_overlap_similarity_lists(text1, text2) ==
    LET words1 == split(text1)
        words2 == split(text2)
        overlap == Cardinality(Range(words1) \cap Range(words2))
        total == Len(words1) + Len(words2)
    IN  IF words1 = <<>> \/ words2 = <<>> THEN Score(0, 1)
        ELSE IF total > 0 THEN Score(overlap, total) ELSE Score(0, 1)

_word_overlap_similarity(text1, text2) ==
    LET words1 == split(text1)
        words2 == split(text2)
        overlap == Cardinality(Range(words1) \cap Range(words2))
        total == Cardinality(Range(words1) \cup Range(words2))
    IN  IF words1 = <<>> \/ words2 = <<>> THEN Score(0, 1)
        ELSE IF total > 0 THEN Score(overlap, total) ELSE Score(0, 1)

\* The result before any call has returned.
NoScore == [num |-> 0, den |-> 0]

\* A cosine: the value num / sqrt(den).
CosScore(n, d) == [num |-> n, den |-> d, root |-> TRUE]

IsRoot(sim) == "root" \in DOMAIN sim

\* similarity == 1.0
IsOne(sim) == IF IsRoot(sim) THEN sim.num * sim.num = sim.den ELSE sim.num = sim.den

\* similarity == 0.0
IsZero(sim) == sim.num = 0 /\ sim.den > 0

\* The two fractions are the same number.
SameValue(sim1, sim2) == sim1.num * sim2.den = sim2.num * sim1.den

Min(a, b) == IF a <= b THEN a ELSE b

Max(a, b) == IF a >= b THEN a ELSE b

WordChars == {"a", "b", "A"}

\* The members of sklearn's English stop word list spelled in the alphabet.
StopWords == {<<"a">>}

\* TfidfVectorizer's analyzer: lower-case the document, take the maximal runs
\* of two or more word characters (token_pattern \b\w\w+\b), drop stop words.
IsToken(w) == Len(w) >= 2 /\ w \notin StopWords

tokens(text) ==
    LET doc == [i \in 1..Len(text) |->
                   IF text[i] \in WordChars THEN lower(text[i]) ELSE " "]
    IN  SelectSeq(split(doc), IsToken)

\* Term frequency: the occurrences of term t in the token list.
tf(t, toks) == Cardinality({i \in 1..Len(toks) : toks[i] = t})

RECURSIVE SumOver(_, _, _, _)
\* The sum over the terms of S of tf(t, toks1) * tf(t, toks2).
SumOver(S, toks1, toks2, acc) ==
    IF S = {} THEN acc
    ELSE LET t == CHOOSE x \in S : TRUE
         IN  SumOver(S \ {t}, toks1, toks2, acc + tf(t, toks1) * tf(t, toks2))

\* The squared smoothed idf of a term that occurs in one of the two documents,
\* (ln(3/2) + 1)^2 = 1.9753..., as the fraction IdfSqNum / IdfSqDen; a term of
\* both documents has idf 1.
IdfSqNum == 79

IdfSqDen == 40

\* The squared norm of a document's tf-idf vector, in units of 1/IdfSqDen.
NormSq(toks, other) ==
    LET mine   == Range(toks)
        shared == mine \cap Range(other)
    IN  IdfSqDen * SumOver(shared, toks, toks, 0)
        + IdfSqNum * SumOver(mine \ shared, toks, toks, 0)

\* fit_transform raises ValueError on an empty vocabulary and the except
\* clause returns 0.0; a zero vector has cosine 0.0 with every vector.
_cosine_similarity(text1, text2) ==
    LET toks1 == tokens(text1)
        toks2 == tokens(text2)
        dot   == IdfSqDen * SumOver(Range(toks1) \cap Range(toks2), toks1, toks2, 0)
        norms == NormSq(toks1, toks2) * NormSq(toks2, toks1)
    IN  IF toks1 = <<>> /\ toks2 = <<>> THEN CosScore(0, 1)
        ELSE IF norms = 0 THEN CosScore(0, 1)
        ELSE CosScore(dot, norms)

\* The matrix with dp[i][0] left at the 0 the matrix is created with.
EditMatrixUninitialised(text1, text2) ==
    LET m == Len(text1)
        n == Len(text2)
        dp[i \in 0..m, j \in 0..n] ==
            IF j = 0 THEN 0
            ELSE IF i = 0 THEN j
            ELSE IF text1[i] = text2[j] THEN dp[i - 1, j - 1]
            ELSE 1 + Min(dp[i - 1, j], Min(dp[i, j - 1], dp[i - 1, j - 1]))
    IN  dp

\* The matrix filled without the substitution term dp[i-1][j-1].
EditMatrixNoSubstitution(text1, text2) ==
    LET m == Len(text1)
        n == Len(text2)
        dp[i \in 0..m, j \in 0..n] ==
            IF j = 0 THEN i
            ELSE IF i = 0 THEN j
            ELSE IF text1[i] = text2[j] THEN dp[i - 1, j - 1]
            ELSE 1 + Min(dp[i - 1, j], dp[i, j - 1])
    IN  dp

\* The matrix dp of _levenshtein_similarity: dp[i][j] is computed from the
\* first i characters of text1 and the first j of text2.
EditMatrix(text1, text2) ==
    LET m == Len(text1)
        n == Len(text2)
        dp[i \in 0..m, j \in 0..n] ==
            IF j = 0 THEN i
            ELSE IF i = 0 THEN j
            ELSE IF text1[i] = text2[j] THEN dp[i - 1, j - 1]
            ELSE 1 + Min(dp[i - 1, j], Min(dp[i, j - 1], dp[i - 1, j - 1]))
    IN  dp

\* 1 - dp[m][n] / max_len, as the fraction (max_len - dp[m][n]) / max_len
_levenshtein_similarity(text1, text2) ==
    LET m == Len(text1)
        n == Len(text2)
        dp == EditMatrix(text1, text2)
        max_len == Max(m, n)
    IN  IF max_len = 0 THEN Score(1, 1)
        ELSE Score(max_len - dp[m, n], max_len)

\* The dispatcher; a method name it does not know is treated as 'cosine'.
calculate_text_similarity(text1, text2, method) ==
    IF text1 = <<>> \/ text2 = <<>> THEN Score(0, 1)
    ELSE LET t1 == clean_text(text1)
             t2 == clean_text(text2)
         IN  IF method = "cosine" THEN _cosine_similarity(t1, t2)
             ELSE IF method = "jaccard" THEN _jaccard_similarity(t1, t2)
             ELSE IF method = "levenshtein" THEN _levenshtein_similarity(t1, t2)
             ELSE IF method = "word_overlap" THEN _word_overlap_similarity(t1, t2)
             ELSE _cosine_similarity(t1, t2)

-----------------------------------------------------------------------------
(* TextDeduplicator.deduplicate_texts (text_deduplicator.py) *)

\* A text block dict; bbox and language are the same in every producer.
MkBlock(text, confidence, frame) ==
    [text |-> text, confidence |-> confidence, source_frames |-> <<frame>>]

RECURSIVE DedupLoopLast(_, _, _, _)
\* The loop with a later block of a seen text put in the place of the one kept.
DedupLoopLast(blocks, i, seen_texts, uniq) ==
    IF i > Len(blocks) THEN uniq
    ELSE LET block == blocks[i] IN
         IF block.text \notin seen_texts
         THEN DedupLoopLast(blocks, i + 1, seen_texts \cup {block.text}, Append(uniq, block))
         ELSE DedupLoopLast(blocks, i + 1, seen_texts,
                            [j \in 1..Len(uniq) |->
                                IF uniq[j].text = block.text THEN block ELSE uniq[j]])

RECURSIVE DedupLoop(_, _, _, _)
\* for block in text_blocks: keep it unless its text is in seen_texts
DedupLoop(blocks, i, seen_texts, uniq) ==
    IF i > Len(blocks) THEN uniq
    ELSE LET block == blocks[i] IN
         IF block.text \notin seen_texts
         THEN DedupLoop(blocks, i + 1, seen_texts \cup {block.text}, Append(uniq, block))
         ELSE DedupLoop(blocks, i + 1, seen_texts, uniq)

\* The loop started at the second block, as the frame loop is (frames[1:]),
\* without seeding the result with the first.
deduplicate_texts_from_second(self, blocks) ==
    IF blocks = <<>> THEN <<>> ELSE DedupLoop(blocks, 2, {}, <<>>)

RECURSIVE FuzzyLoop(_, _, _, _)
\* A thresholded loop with the comparison the wrong way round: a block is
\* taken for a duplicate when it is less similar than the threshold.
FuzzyLoop(self, blocks, i, uniq) ==
    IF i > Len(blocks) THEN uniq
    ELSE LET block == blocks[i]
             dup == \E j \in 1..Len(uniq) :
                        \/ uniq[j].text = block.text
                        \/ Below(calculate_text_similarity(block.text, uniq[j].text,
                                                           "jaccard"),
                                 self.threshold)
         IN  FuzzyLoop(self, blocks, i + 1,
                       IF dup THEN uniq ELSE Append(uniq, block))

deduplicate_texts_inverted(self, blocks) ==
    IF blocks = <<>> THEN <<>> ELSE FuzzyLoop(self, blocks, 1, <<>>)

\* self is the TextDeduplicator: its config is stored by __init__ and never
\* read by the method.
deduplicate_texts(self, blocks) ==
    IF blocks = <<>> THEN <<>> ELSE DedupLoop(blocks, 1, {}, <<>>)

RECURSIVE BlockLists(_)
\* The input lists of exactly n blocks; the k-th block comes from frame k-1.
BlockLists(n) ==
    IF n = 0 THEN {<<>>}
    ELSE {Append(l, MkBlock(t, c, n - 1)) :
             l \in BlockLists(n - 1), t \in Texts, c \in Confidences}

-----------------------------------------------------------------------------
(* deduplicate_frames, one action per step of the function *)

FramesOff ==
    /\ frames = <<>>
    /\ readable = {}
    /\ ssim = <<>>
    /\ threshold = DefaultThreshold
    /\ unique_frames = <<>>
    /\ idx = 0
    /\ ncompare = 0
    /\ fpc = "off"
    /\ first_unique = <<>>
    /\ phase = "off"

TextOff ==
    /\ text_blocks = <<>>
    /\ dedup_config = [threshold |-> 95]
    /\ unique_blocks = <<>>
    /\ reclustered = <<>>
    /\ raised_blocks = <<>>
    /\ tpc = "off"

PipelineOff ==
    /\ cmd = "off"
    /\ ppc = "off"
    /\ conf_floor = DefaultFloor
    /\ video_ok = TRUE
    /\ nimages = 0
    /\ format = "code"
    /\ dedup_flag = FALSE
    /\ src_exists = FALSE
    /\ run_frames = <<>>
    /\ run_blocks = <<>>
    /\ run_unique = <<>>
    /\ ocr_data = <<>>
    /\ project = <<>>
    /\ dedup_seen = <<>>
    /\ recon_seen = <<>>
    /\ artifacts = {}
    /\ exit_code = -1
    /\ stages = <<>>
    /\ failure = "none"

ExtractOff ==
    /\ opened = TRUE
    /\ native_fps = 1
    /\ fps = 1
    /\ max_frames = 0
    /\ skip_blurry = FALSE
    /\ video_len = 0
    /\ blurry = {}
    /\ frame_interval = 1
    /\ frame_count = 0
    /\ extracted_count = 0
    /\ extracted = <<>>
    /\ raised = "none"
    /\ epc = "off"

SimOff ==
    /\ s_text1 = <<>>
    /\ s_text2 = <<>>
    /\ s_method = "none"
    /\ s_result = NoScore
    /\ s_reverse = NoScore
    /\ s_error = "none"
    /\ s_clean = <<>>
    /\ s_reclean = <<>>
    /\ s_helpers = <<>>
    /\ spc = "off"

Init ==
    /\ \E n \in 0..MaxFrames :
         /\ frames = FrameList(n)
         /\ \E r \in SUBSET (0..(n - 1)) :
              /\ readable = r
              /\ \E s \in [{p \in Pairs(n) : p[1] \in r /\ p[2] \in r} -> Levels] :
                   ssim = [p \in Pairs(n) |->
                              IF p[1] \in r /\ p[2] \in r THEN s[p] ELSE 0]
    /\ threshold \in Thresholds
    /\ unique_frames = <<>>
    /\ idx = 0
    /\ ncompare = 0
    /\ fpc = "start"
    /\ first_unique = <<>>
    /\ phase = "first"
    /\ TextOff
    /\ PipelineOff
    /\ SimOff
    /\ ExtractOff

\* if not frames: return []
DedupFramesEmpty ==
    /\ fpc = "start"
    /\ NoFrames(frames)
    /\ unique_frames' = <<>>
    /\ fpc' = "done"
    /\ UNCHANGED <<frames, readable, ssim, threshold, idx, ncompare, first_unique, phase,
                   tvars, pvars, svars, evars>>

\* The result started empty, the loop still over frames[1:].
DedupFramesFirstDropped ==
    /\ fpc = "start"
    /\ ~NoFrames(frames)
    /\ unique_frames' = <<>>
    /\ idx' = 2
    /\ fpc' = "loop"
    /\ UNCHANGED <<frames, readable, ssim, threshold, ncompare, first_unique, phase,
                   tvars, pvars, svars, evars>>

\* unique_frames = [frames[0]]
DedupFramesFirst ==
    /\ fpc = "start"
    /\ ~NoFrames(frames)
    /\ unique_frames' = <<frames[1]>>
    /\ idx' = 2
    /\ fpc' = "loop"
    /\ UNCHANGED <<frames, readable, ssim, threshold, ncompare, first_unique, phase,
                   tvars, pvars, svars, evars>>

\* One iteration of "for i, frame in enumerate(frames[1:], 1)".
DedupFramesStep ==
    /\ fpc = "loop"
    /\ idx <= Len(frames)
    /\ LET frame == frames[idx] IN
         /\ ncompare' = ncompare + CallsMade(frame, unique_frames)
         /\ unique_frames' = IF is_duplicate(frame, unique_frames)
                             THEN unique_frames
                             ELSE Retain(unique_frames, frame)
    /\ idx' = idx + 1
    /\ UNCHANGED <<frames, readable, ssim, threshold, fpc, first_unique, phase,
                   tvars, pvars, svars, evars>>

\* return unique_frames
DedupFramesReturn ==
    /\ fpc = "loop"
    /\ idx > Len(frames)
    /\ fpc' = "done"
    /\ UNCHANGED <<frames, readable, ssim, threshold, unique_frames, idx, ncompare, first_unique, phase,
                   tvars, pvars, svars, evars>>

\* The list the first call returned is given to deduplicate_frames again,
\* with the same threshold.
DedupFramesAgain ==
    /\ fpc = "done" /\ phase = "first"
    /\ first_unique' = unique_frames
    /\ frames' = unique_frames
    /\ unique_frames' = <<>>
    /\ idx' = 0
    /\ ncompare' = 0
    /\ fpc' = "start"
    /\ phase' = "again"
    /\ UNCHANGED <<readable, ssim, threshold, tvars, pvars, svars, evars>>

\* The same list is given to deduplicate_frames again with a higher threshold.
DedupFramesRaised ==
    /\ fpc = "done" /\ phase = "first"
    /\ \E t \in Thresholds :
         /\ t > threshold
         /\ threshold' = t
    /\ first_unique' = unique_frames
    /\ unique_frames' = <<>>
    /\ idx' = 0
    /\ ncompare' = 0
    /\ fpc' = "start"
    /\ phase' = "raised"
    /\ UNCHANGED <<frames, readable, ssim, tvars, pvars, svars, evars>>

Next ==
    \/ DedupFramesEmpty
    \/ DedupFramesFirst
    \/ DedupFramesStep
    \/ DedupFramesReturn
    \/ DedupFramesAgain
    \/ DedupFramesRaised

Spec == Init /\ [][Next]_vars

-----------------------------------------------------------------------------
(* VideoProcessor.extract_frames, one action per step of the function *)

\* A time in seconds: the quotient num / den.
Seconds(n, d) == [num |-> n, den |-> d]

\* The frame numbered by its position in the video.
ExtractedFrameByCount(ec, fc, rate) == [id |-> fc, timestamp |-> Seconds(fc, rate)]

\* Frame(id=extracted_count, ..., timestamp=frame_count / video_info.fps)
ExtractedFrame(ec, fc, rate) == [id |-> ec, timestamp |-> Seconds(fc, rate)]

ExtractInit ==
    /\ FramesOff
    /\ TextOff
    /\ PipelineOff
    /\ SimOff
    /\ opened \in BOOLEAN
    /\ native_fps \in NativeRates
    /\ fps \in RequestedRates
    /\ max_frames \in FrameCaps
    /\ skip_blurry \in BOOLEAN
    /\ video_len \in 0..MaxVideoFrames
    /\ blurry \in SUBSET (0..(video_len - 1))
    /\ frame_interval = 1
    /\ frame_count = 0
    /\ extracted_count = 0
    /\ extracted = <<>>
    /\ raised = "none"
    /\ epc = "start"

\* if not cap.isOpened(): raise ValueError
ExtractCannotOpen ==
    /\ epc = "start"
    /\ ~opened
    /\ raised' = "ValueError"
    /\ epc' = "raised"
    /\ UNCHANGED <<opened, native_fps, fps, max_frames, skip_blurry, video_len, blurry,
                   frame_interval, frame_count, extracted_count, extracted,
                   fvars, tvars, pvars, svars>>

\* frame_interval = int(video_info.fps / fps) if fps > 0 else 1
ExtractStart ==
    /\ epc = "start"
    /\ opened
    /\ frame_interval' = IF fps > 0 THEN native_fps \div fps ELSE 1
    /\ epc' = "loop"
    /\ UNCHANGED <<opened, native_fps, fps, max_frames, skip_blurry, video_len, blurry,
                   frame_count, extracted_count, extracted, raised,
                   fvars, tvars, pvars, svars>>

\* The loop goes on: extracted_count < max_frames and cap.read() has a frame.
ExtractHasFrame == extracted_count < max_frames /\ frame_count < video_len

\* The frame read is one to extract: frame_count % frame_interval == 0
ExtractDue == frame_count % frame_interval = 0

ExtractSkipped == skip_blurry /\ frame_count \in blurry

\* One iteration of the while loop that raises nothing.
ExtractRead ==
    /\ epc = "loop"
    /\ ExtractHasFrame
    /\ frame_interval # 0
    /\ IF ExtractDue /\ ~ExtractSkipped
       THEN /\ native_fps # 0
            /\ extracted' = Append(extracted,
                                   ExtractedFrame(extracted_count, frame_count, native_fps))
            /\ extracted_count' = extracted_count + 1
       ELSE UNCHANGED <<extracted, extracted_count>>
    /\ frame_count' = frame_count + 1
    /\ UNCHANGED <<opened, native_fps, fps, max_frames, skip_blurry, video_len, blurry,
                   frame_interval, raised, epc,
                   fvars, tvars, pvars, svars>>

\* frame_count % frame_interval with frame_interval 0: ZeroDivisionError
ExtractModuloRaises ==
    /\ epc = "loop"
    /\ ExtractHasFrame
    /\ frame_interval = 0
    /\ raised' = "ZeroDivisionError"
    /\ epc' = "raised"
    /\ UNCHANGED <<opened, native_fps, fps, max_frames, skip_blurry, video_len, blurry,
                   frame_interval, frame_count, extracted_count, extracted,
                   fvars, tvars, pvars, svars>>

\* frame_count / video_info.fps with video_info.fps 0.0: ZeroDivisionError
ExtractTimestampRaises ==
    /\ epc = "loop"
    /\ ExtractHasFrame
    /\ frame_interval # 0
    /\ ExtractDue /\ ~ExtractSkipped
    /\ native_fps = 0
    /\ raised' = "ZeroDivisionError"
    /\ epc' = "raised"
    /\ UNCHANGED <<opened, native_fps, fps, max_frames, skip_blurry, video_len, blurry,
                   frame_interval, frame_count, extracted_count, extracted,
                   fvars, tvars, pvars, svars>>

\* The loop ends (max_frames reached, or cap.read() fails): return frames
ExtractReturn ==
    /\ epc = "loop"
    /\ ~ExtractHasFrame
    /\ epc' = "done"
    /\ UNCHANGED <<opened, native_fps, fps, max_frames, skip_blurry, video_len, blurry,
                   frame_interval, frame_count, extracted_count, extracted, raised,
                   fvars, tvars, pvars, svars>>

ExtractNext ==
    \/ ExtractCannotOpen
    \/ ExtractStart
    \/ ExtractRead
    \/ ExtractModuloRaises
    \/ ExtractTimestampRaises
    \/ ExtractReturn

ExtractSpec == ExtractInit /\ [][ExtractNext]_vars

-----------------------------------------------------------------------------
(* The functions of utils/text_similarity.py, applied to drawn texts *)

SimInit ==
    /\ FramesOff
    /\ TextOff
    /\ PipelineOff
    /\ s_text1 \in SimTexts
    /\ s_text2 \in SimTexts
    /\ s_method = "none"
    /\ s_result = NoScore
    /\ s_reverse = NoScore
    /\ s_error = "none"
    /\ s_clean = <<>>
    /\ s_reclean = <<>>
    /\ s_helpers = <<>>
    /\ spc = "start"
    /\ ExtractOff

\* calculate_text_similarity(text1, text2, method) and the same call with the
\* texts exchanged. No branch of the function raises: both calls return.
CompareTexts ==
    /\ spc = "start"
    /\ \E method \in MethodNames :
         /\ s_method' = method
         /\ s_result' = calculate_text_similarity(s_text1, s_text2, method)
         /\ s_reverse' = calculate_text_similarity(s_text2, s_text1, method)
    /\ spc' = "compared"
    /\ UNCHANGED <<s_text1, s_text2, s_error, s_clean, s_reclean, s_helpers,
                   fvars, tvars, pvars, evars>>

\* clean_text(text1), and clean_text applied to what it returned
NormalizeText ==
    /\ spc = "start"
    /\ s_clean' = clean_text(s_text1)
    /\ s_reclean' = clean_text(clean_text(s_text1))
    /\ spc' = "normalized"
    /\ UNCHANGED <<s_text1, s_text2, s_method, s_result, s_reverse, s_error,
                   s_helpers, fvars, tvars, pvars, evars>>

\* The helpers called on the two texts as they are.
ScoreHelpers ==
    /\ spc = "start"
    /\ s_helpers' = [levenshtein  |-> _levenshtein_similarity(s_text1, s_text2),
                     jaccard      |-> _jaccard_similarity(s_text1, s_text2),
                     word_overlap |-> _word_overlap_similarity(s_text1, s_text2)]
    /\ spc' = "scored"
    /\ UNCHANGED <<s_text1, s_text2, s_method, s_result, s_reverse, s_error,
                   s_clean, s_reclean, fvars, tvars, pvars, evars>>

SimNext ==
    \/ CompareTexts
    \/ NormalizeText
    \/ ScoreHelpers

SimSpec == SimInit /\ [][SimNext]_vars

-----------------------------------------------------------------------------
(* deduplicate_texts, applied to drawn inputs *)

TextInit ==
    /\ FramesOff
    /\ \E n \in 0..MaxBlocks : text_blocks \in BlockLists(n)
    /\ \E t \in TextThresholds : dedup_config = [threshold |-> t]
    /\ unique_blocks = <<>>
    /\ reclustered = <<>>
    /\ raised_blocks = <<>>
    /\ tpc = "start"
    /\ PipelineOff
    /\ SimOff
    /\ ExtractOff

\* unique_texts = text_deduplicator.deduplicate_texts(text_blocks)
DeduplicateTexts ==
    /\ tpc = "start"
    /\ unique_blocks' = deduplicate_texts(dedup_config, text_blocks)
    /\ tpc' = "done"
    /\ UNCHANGED <<text_blocks, dedup_config, reclustered, raised_blocks, fvars, pvars, svars, evars>>

\* The returned entries are fed back to the same deduplicator as fresh blocks.
ReDeduplicate ==
    /\ tpc = "done"
    /\ reclustered' = deduplicate_texts(dedup_config, unique_blocks)
    /\ tpc' = "redone"
    /\ UNCHANGED <<text_blocks, dedup_config, unique_blocks, raised_blocks, fvars, pvars, svars, evars>>

\* The same input is given to a deduplicator configured with a higher
\* threshold.
RaiseThreshold ==
    /\ tpc = "done"
    /\ \E t \in TextThresholds :
         /\ t > dedup_config.threshold
         /\ dedup_config' = [threshold |-> t]
         /\ raised_blocks' = deduplicate_texts([threshold |-> t], text_blocks)
    /\ tpc' = "raised"
    /\ UNCHANGED <<text_blocks, unique_blocks, reclustered, fvars, pvars, svars, evars>>

TextNext ==
    \/ DeduplicateTexts
    \/ ReDeduplicate
    \/ RaiseThreshold

TextSpec == TextInit /\ [][TextNext]_vars

-----------------------------------------------------------------------------
(* The commands of main.py: run, and the staged ocr then analyze *)

\* "Sample text from frame {i}"
SampleText(i) == <<"Sample text from frame ", ToString(i)>>

\* TextExtractor.extract_text_from_video: one placeholder block per frame
extract_text_from_video(frame_list) ==
    [i \in 1..Len(frame_list) |-> MkBlock(SampleText(i - 1), MockConfidence, i - 1)]

\* AIReconstructor.reconstruct_project: one file per text block
reconstruct_project(blocks) ==
    [i \in 1..Len(blocks) |-> [name |-> i - 1, content |-> blocks[i].text]]

\* TextDeduplicator(): config or {}
EmptyConfig == <<>>

\* ocr: the blocks of one image that pass "confidence >= floor"
OcrKeep(blocks, floor) == SelectSeq(blocks, LAMBDA b : b.confidence >= floor)

\* ocr: frame_data of one image; the names the frames command writes hold no
\* "_t<seconds>" part, so the timestamp stays 0.0
OcrFrameData(image, floor) ==
    [timestamp |-> 0,
     text_blocks |-> OcrKeep(extract_text_from_video(<<image>>), floor)]

RECURSIVE AllTexts(_)
\* analyze: all_texts, the blocks of every frame of the JSON file in order
AllTexts(frame_data) ==
    IF frame_data = <<>> THEN <<>>
    ELSE [i \in 1..Len(Head(frame_data).text_blocks) |->
             [text |-> Head(frame_data).text_blocks[i].text,
              confidence |-> Head(frame_data).text_blocks[i].confidence,
              timestamp |-> Head(frame_data).timestamp]]
         \o AllTexts(Tail(frame_data))

\* analyze: text_dicts
TextDicts(all_texts) ==
    [i \in 1..Len(all_texts) |->
        MkBlock(all_texts[i].text, all_texts[i].confidence, all_texts[i].timestamp)]

\* analyze: refined_texts
RefinedTexts(deduplicated) ==
    [i \in 1..Len(deduplicated) |->
        [text |-> deduplicated[i].text,
         confidence |-> deduplicated[i].confidence,
         timestamp |-> IF deduplicated[i].source_frames # <<>>
                       THEN deduplicated[i].source_frames[1] ELSE 0]]

PipelineInit ==
    /\ FramesOff
    /\ TextOff
    /\ cmd \in {"run", "ocr"}
    /\ ppc = "start"
    /\ conf_floor \in ConfidenceFloors
    /\ video_ok \in BOOLEAN
    /\ nimages \in 0..MaxImages
    /\ format \in Formats
    /\ dedup_flag \in BOOLEAN
    /\ src_exists \in BOOLEAN
    /\ run_frames = <<>>
    /\ run_blocks = <<>>
    /\ run_unique = <<>>
    /\ ocr_data = <<>>
    /\ project = <<>>
    /\ dedup_seen = <<>>
    /\ recon_seen = <<>>
    /\ artifacts = {}
    /\ exit_code = -1
    /\ stages = <<>>
    /\ failure = "none"
    /\ SimOff
    /\ ExtractOff

\* run: output_dir.mkdir, the processors are constructed
RunSetup ==
    /\ cmd = "run" /\ ppc = "start"
    /\ artifacts' = artifacts \cup {"output_dir"}
    /\ ppc' = "extract"
    /\ UNCHANGED <<cmd, conf_floor, video_ok, nimages, format, dedup_flag, src_exists,
                   run_frames, run_blocks, run_unique, ocr_data, project, dedup_seen,
                   recon_seen, exit_code, stages, failure,
                   fvars, tvars, svars, evars>>

\* run: frames = video_processor.extract_frames(...)
RunExtractFrames ==
    /\ cmd = "run" /\ ppc = "extract"
    /\ video_ok
    /\ run_frames' = FrameList(nimages)
    /\ ppc' = "ocr"
    /\ stages' = Append(stages, "extract_frames")
    /\ UNCHANGED <<cmd, conf_floor, video_ok, nimages, format, dedup_flag, src_exists,
                   run_blocks, run_unique, ocr_data, project, dedup_seen,
                   recon_seen, artifacts, exit_code, failure,
                   fvars, tvars, svars, evars>>

\* run: extract_frames raises ValueError("Cannot open video file"); the
\* handler reports it and exits with status 1
RunExtractFramesFails ==
    /\ cmd = "run" /\ ppc = "extract"
    /\ ~video_ok
    /\ ppc' = "failed"
    /\ exit_code' = 1
    /\ stages' = Append(stages, "extract_frames")
    /\ failure' = "extract_frames"
    /\ UNCHANGED <<cmd, conf_floor, video_ok, nimages, format, dedup_flag, src_exists,
                   run_frames, run_blocks, run_unique, ocr_data, project, dedup_seen,
                   recon_seen, artifacts, fvars, tvars, svars, evars>>

\* run: text_blocks = text_extractor.extract_text_from_video(frames)
RunExtractText ==
    /\ cmd = "run" /\ ppc = "ocr"
    /\ run_blocks' = extract_text_from_video(run_frames)
    /\ ppc' = "dedup"
    /\ stages' = Append(stages, "extract_text_from_video")
    /\ UNCHANGED <<cmd, conf_floor, video_ok, nimages, format, dedup_flag, src_exists,
                   run_frames, run_unique, ocr_data, project, dedup_seen,
                   recon_seen, artifacts, exit_code, failure,
                   fvars, tvars, svars, evars>>

\* run: unique_texts = text_deduplicator.deduplicate_texts(text_blocks)
RunDeduplicate ==
    /\ cmd = "run" /\ ppc = "dedup"
    /\ dedup_seen' = run_blocks
    /\ run_unique' = deduplicate_texts(EmptyConfig, run_blocks)
    /\ ppc' = "reconstruct"
    /\ stages' = Append(stages, "deduplicate_texts")
    /\ UNCHANGED <<cmd, conf_floor, video_ok, nimages, format, dedup_flag, src_exists,
                   run_frames, run_blocks, ocr_data, project,
                   recon_seen, artifacts, exit_code, failure,
                   fvars, tvars, svars, evars>>

\* run: project_data = ai_reconstructor.reconstruct_project(unique_texts)
RunReconstruct ==
    /\ cmd = "run" /\ ppc = "reconstruct"
    /\ recon_seen' = run_unique
    /\ project' = reconstruct_project(run_unique)
    /\ ppc' = "code"
    /\ stages' = Append(stages, "reconstruct_project")
    /\ UNCHANGED <<cmd, conf_floor, video_ok, nimages, format, dedup_flag, src_exists,
                   run_frames, run_blocks, run_unique, ocr_data, dedup_seen,
                   artifacts, exit_code, failure,
                   fvars, tvars, svars, evars>>

\* run: generate_codebase creates <output_dir>/code and writes every file into
\* <output_dir>/code/src, a directory it never creates
RunGenerateCode ==
    /\ cmd = "run" /\ ppc = "code"
    /\ format \in {"code", "both"}
    /\ project = <<>> \/ src_exists
    /\ artifacts' = artifacts \cup {"code"}
                        \cup (IF project # <<>> THEN {"code_files"} ELSE {})
    /\ ppc' = "docs"
    /\ stages' = Append(stages, "generate_codebase")
    /\ UNCHANGED <<cmd, conf_floor, video_ok, nimages, format, dedup_flag, src_exists,
                   run_frames, run_blocks, run_unique, ocr_data, project, dedup_seen,
                   recon_seen, exit_code, failure,
                   fvars, tvars, svars, evars>>

\* run: the exception of generate_codebase swallowed, the command going on
\* to the documentation.
RunGenerateCodeFailsSwallowed ==
    /\ cmd = "run" /\ ppc = "code"
    /\ format \in {"code", "both"}
    /\ project # <<>> /\ ~src_exists
    /\ artifacts' = artifacts \cup {"code"}
    /\ ppc' = "docs"
    /\ stages' = Append(stages, "generate_codebase")
    /\ failure' = "generate_codebase"
    /\ UNCHANGED <<cmd, conf_floor, video_ok, nimages, format, dedup_flag,
                   src_exists, run_frames, run_blocks, run_unique, ocr_data,
                   project, dedup_seen, recon_seen, exit_code,
                   fvars, tvars, svars, evars>>

\* run: open() of the first file raises FileNotFoundError; generate_codebase
\* logs and re-raises, the handler exits with status 1
RunGenerateCodeFails ==
    /\ cmd = "run" /\ ppc = "code"
    /\ format \in {"code", "both"}
    /\ project # <<>> /\ ~src_exists
    /\ artifacts' = artifacts \cup {"code"}
    /\ ppc' = "failed"
    /\ exit_code' = 1
    /\ stages' = Append(stages, "generate_codebase")
    /\ failure' = "generate_codebase"
    /\ UNCHANGED <<cmd, conf_floor, video_ok, nimages, format, dedup_flag, src_exists,
                   run_frames, run_blocks, run_unique, ocr_data, project, dedup_seen,
                   recon_seen, fvars, tvars, svars, evars>>

RunSkipCode ==
    /\ cmd = "run" /\ ppc = "code"
    /\ format = "docs"
    /\ ppc' = "docs"
    /\ UNCHANGED <<cmd, conf_floor, video_ok, nimages, format, dedup_flag, src_exists,
                   run_frames, run_blocks, run_unique, ocr_data, project, dedup_seen,
                   recon_seen, artifacts, exit_code, stages, failure,
                   fvars, tvars, svars, evars>>

\* run: generate_documentation writes <output_dir>/docs.md; the command ends
RunGenerateDocs ==
    /\ cmd = "run" /\ ppc = "docs"
    /\ format \in {"docs", "both"}
    /\ artifacts' = artifacts \cup {"docs.md"}
    /\ ppc' = "done"
    /\ exit_code' = 0
    /\ stages' = Append(stages, "generate_documentation")
    /\ UNCHANGED <<cmd, conf_floor, video_ok, nimages, format, dedup_flag, src_exists,
                   run_frames, run_blocks, run_unique, ocr_data, project, dedup_seen,
                   recon_seen, failure,
                   fvars, tvars, svars, evars>>

RunSkipDocs ==
    /\ cmd = "run" /\ ppc = "docs"
    /\ format = "code"
    /\ ppc' = "done"
    /\ exit_code' = 0
    /\ UNCHANGED <<cmd, conf_floor, video_ok, nimages, format, dedup_flag, src_exists,
                   run_frames, run_blocks, run_unique, ocr_data, project, dedup_seen,
                   recon_seen, artifacts, stages, failure,
                   fvars, tvars, svars, evars>>

\* ocr: every image is recognised on its own and its blocks filtered by the
\* floor; the JSON file is written. The analyze command may follow.
OcrCommand ==
    /\ cmd = "ocr" /\ ppc = "start"
    /\ nimages > 0
    /\ ocr_data' = [k \in 1..nimages |-> OcrFrameData(MkFrame(k - 1), conf_floor)]
    /\ cmd' = "analyze"
    /\ stages' = Append(stages, "extract_text_from_video")
    /\ UNCHANGED <<ppc, conf_floor, video_ok, nimages, format, dedup_flag, src_exists,
                   run_frames, run_blocks, run_unique, project, dedup_seen,
                   recon_seen, artifacts, exit_code, failure,
                   fvars, tvars, svars, evars>>

\* ocr: "No frames found in directory", sys.exit(1)
OcrNoFrames ==
    /\ cmd = "ocr" /\ ppc = "start"
    /\ nimages = 0
    /\ ppc' = "failed"
    /\ exit_code' = 1
    /\ UNCHANGED <<cmd, conf_floor, video_ok, nimages, format, dedup_flag, src_exists,
                   run_frames, run_blocks, run_unique, ocr_data, project, dedup_seen,
                   recon_seen, artifacts, stages, failure,
                   fvars, tvars, svars, evars>>

\* analyze: the JSON file is loaded, deduplicated on request, reconstructed
AnalyzeCommand ==
    /\ cmd = "analyze" /\ ppc = "start"
    /\ LET all_texts == AllTexts(ocr_data)
           text_dicts == TextDicts(all_texts)
           refined == IF dedup_flag
                      THEN RefinedTexts(deduplicate_texts(EmptyConfig, text_dicts))
                      ELSE all_texts
       IN  /\ dedup_seen' = IF dedup_flag THEN text_dicts ELSE dedup_seen
           /\ run_blocks' = refined
           /\ recon_seen' = refined
           /\ project' = reconstruct_project(refined)
    /\ ppc' = "done"
    /\ exit_code' = 0
    /\ stages' = stages \o (IF dedup_flag THEN <<"deduplicate_texts">> ELSE <<>>)
                        \o <<"reconstruct_project">>
    /\ UNCHANGED <<cmd, conf_floor, video_ok, nimages, format, dedup_flag, src_exists,
                   run_frames, run_unique, ocr_data, artifacts, failure,
                   fvars, tvars, svars, evars>>

\* build: the analysis JSON is loaded, its refined_texts are turned back into
\* text blocks and handed to reconstruct_project
BuildReconstruct ==
    /\ cmd = "analyze" /\ ppc = "done"
    /\ cmd' = "build"
    /\ recon_seen' = TextDicts(run_blocks)
    /\ project' = reconstruct_project(TextDicts(run_blocks))
    /\ stages' = <<"reconstruct_project">>
    /\ ppc' = "mkdir"
    /\ exit_code' = -1
    /\ UNCHANGED <<conf_floor, video_ok, nimages, format, dedup_flag,
                   src_exists, run_frames, run_blocks, run_unique, ocr_data,
                   dedup_seen, artifacts, failure,
                   fvars, tvars, svars, evars>>

\* build: output_dir.mkdir(parents=True, exist_ok=True)
BuildMkdir ==
    /\ cmd = "build" /\ ppc = "mkdir"
    /\ artifacts' = artifacts \cup {"output_dir"}
    /\ ppc' = "code"
    /\ UNCHANGED <<cmd, conf_floor, video_ok, nimages, format, dedup_flag,
                   src_exists, run_frames, run_blocks, run_unique, ocr_data,
                   project, dedup_seen, recon_seen, exit_code, stages, failure,
                   fvars, tvars, svars, evars>>

\* build: generate_codebase, as in run
BuildGenerateCode ==
    /\ cmd = "build" /\ ppc = "code"
    /\ format \in {"code", "both"}
    /\ project = <<>> \/ src_exists
    /\ artifacts' = artifacts \cup {"code"}
                        \cup (IF project # <<>> THEN {"code_files"} ELSE {})
    /\ stages' = Append(stages, "generate_codebase")
    /\ ppc' = "docs"
    /\ UNCHANGED <<cmd, conf_floor, video_ok, nimages, format, dedup_flag,
                   src_exists, run_frames, run_blocks, run_unique, ocr_data,
                   project, dedup_seen, recon_seen, exit_code, failure,
                   fvars, tvars, svars, evars>>

\* build: generate_codebase raises FileNotFoundError, the handler exits with
\* status 1
BuildGenerateCodeFails ==
    /\ cmd = "build" /\ ppc = "code"
    /\ format \in {"code", "both"}
    /\ project # <<>> /\ ~src_exists
    /\ artifacts' = artifacts \cup {"code"}
    /\ stages' = Append(stages, "generate_codebase")
    /\ failure' = "generate_codebase"
    /\ ppc' = "failed"
    /\ exit_code' = 1
    /\ UNCHANGED <<cmd, conf_floor, video_ok, nimages, format, dedup_flag,
                   src_exists, run_frames, run_blocks, run_unique, ocr_data,
                   project, dedup_seen, recon_seen,
                   fvars, tvars, svars, evars>>

BuildSkipCode ==
    /\ cmd = "build" /\ ppc = "code"
    /\ format = "docs"
    /\ ppc' = "docs"
    /\ UNCHANGED <<cmd, conf_floor, video_ok, nimages, format, dedup_flag,
                   src_exists, run_frames, run_blocks, run_unique, ocr_data,
                   project, dedup_seen, recon_seen, artifacts, exit_code,
                   stages, failure,
                   fvars, tvars, svars, evars>>

\* build: generate_documentation writes <output_dir>/docs.md
BuildGenerateDocs ==
    /\ cmd = "build" /\ ppc = "docs"
    /\ format \in {"docs", "both"}
    /\ artifacts' = artifacts \cup {"docs.md"}
    /\ stages' = Append(stages, "generate_documentation")
    /\ ppc' = "summary"
    /\ UNCHANGED <<cmd, conf_floor, video_ok, nimages, format, dedup_flag,
                   src_exists, run_frames, run_blocks, run_unique, ocr_data,
                   project, dedup_seen, recon_seen, exit_code, failure,
                   fvars, tvars, svars, evars>>

BuildSkipDocs ==
    /\ cmd = "build" /\ ppc = "docs"
    /\ format = "code"
    /\ ppc' = "summary"
    /\ UNCHANGED <<cmd, conf_floor, video_ok, nimages, format, dedup_flag,
                   src_exists, run_frames, run_blocks, run_unique, ocr_data,
                   project, dedup_seen, recon_seen, artifacts, exit_code,
                   stages, failure,
                   fvars, tvars, svars, evars>>

\* build: build_summary.json is written; the command ends
BuildSummary ==
    /\ cmd = "build" /\ ppc = "summary"
    /\ artifacts' = artifacts \cup {"build_summary.json"}
    /\ ppc' = "done"
    /\ exit_code' = 0
    /\ UNCHANGED <<cmd, conf_floor, video_ok, nimages, format, dedup_flag,
                   src_exists, run_frames, run_blocks, run_unique, ocr_data,
                   project, dedup_seen, recon_seen, stages, failure,
                   fvars, tvars, svars, evars>>

PipelineNext ==
    \/ RunSetup
    \/ RunExtractFrames
    \/ RunExtractFramesFails
    \/ RunExtractText
    \/ RunDeduplicate
    \/ RunReconstruct
    \/ RunGenerateCode
    \/ RunGenerateCodeFails
    \/ RunSkipCode
    \/ RunGenerateDocs
    \/ RunSkipDocs
    \/ OcrCommand
    \/ OcrNoFrames
    \/ AnalyzeCommand
    \/ BuildReconstruct
    \/ BuildMkdir
    \/ BuildGenerateCode
    \/ BuildGenerateCodeFails
    \/ BuildSkipCode
    \/ BuildGenerateDocs
    \/ BuildSkipDocs
    \/ BuildSummary

PipelineSpec == PipelineInit /\ [][PipelineNext]_vars

-----------------------------------------------------------------------------
(* Frame deduplication: properties *)

\* Number of leading frames of the input whose fate is decided.
Processed == IF fpc = "start" \/ frames = <<>> THEN 0 ELSE idx - 1

Retained(k) == \E j \in 1..Len(unique_frames) : unique_frames[j] = frames[k]

RECURSIVE IsSubseq(_, _)
IsSubseq(s, t) ==
    IF s = <<>> THEN TRUE
    ELSE IF t = <<>> THEN FALSE
    ELSE IF Head(s) = Head(t) THEN IsSubseq(Tail(s), Tail(t))
    ELSE IsSubseq(s, Tail(t))

\* C1: the first frame is always kept, and a later frame is dropped if and
\* only if its similarity to some frame retained before it is greater than
\* or equal to the threshold (so a similarity equal to the threshold drops).
C1_DropIffSimAtLeastThreshold ==
    /\ Processed >= 1 => Retained(1)
    /\ \A k \in 2..Processed :
         ~Retained(k) <=>
             \E j \in 1..(k - 1) :
                 /\ Retained(j)
                 /\ _calculate_frame_similarity(frames[k], frames[j]) >= threshold

\* C2: the retained list is a subsequence of the input list: only input
\* frames, none more often than in the input, in the input's order.
C2_OutputIsSubsequence == IsSubseq(unique_frames, frames)

\* C2 witness: a finished run that dropped a frame and kept several.
C2_Witness ==
    /\ fpc = "done"
    /\ Len(unique_frames) >= 2
    /\ Len(unique_frames) < Len(frames)

-----------------------------------------------------------------------------
(* Text deduplication: properties *)

\* Position of the first input block with the given text.
FirstOccurrence(blocks, text) ==
    CHOOSE i \in 1..Len(blocks) :
        /\ blocks[i].text = text
        /\ \A k \in 1..(i - 1) : blocks[k].text # text

SameText(blocks, text) == {i \in 1..Len(blocks) : blocks[i].text = text}

RECURSIVE MergedTimestamps(_, _)
\* The source timestamps of all blocks with the given text, in input order.
MergedTimestamps(blocks, text) ==
    IF blocks = <<>> THEN <<>>
    ELSE (IF Head(blocks).text = text THEN Head(blocks).source_frames ELSE <<>>)
         \o MergedTimestamps(Tail(blocks), text)

Ascending(s) == \A i, j \in 1..Len(s) : i < j => s[i] <= s[j]

MaxConfidence(blocks, text) ==
    CHOOSE c \in {blocks[i].confidence : i \in SameText(blocks, text)} :
        \A i \in SameText(blocks, text) : blocks[i].confidence <= c

RECURSIVE MemberCount(_)
\* The blocks the output entries account for: each entry carries one source
\* timestamp per block that went into it.
MemberCount(entries) ==
    IF entries = <<>> THEN 0
    ELSE Len(Head(entries).source_frames) + MemberCount(Tail(entries))

EmptyBlocks(blocks) == {i \in 1..Len(blocks) : blocks[i].text = <<>>}

\* C3: a block is merged when it is at least as similar as the threshold to
\* an existing representative, so no two output entries are near-duplicates
\* (similarity at or above the threshold).
C3_NearDuplicatesMerged ==
    tpc = "done" =>
        \A i, j \in 1..Len(unique_blocks) :
            i < j =>
                Below(calculate_text_similarity(unique_blocks[i].text,
                                                unique_blocks[j].text, "jaccard"),
                      dedup_config.threshold)

\* C4: the member counts of the output clusters sum to the number of input
\* blocks minus the blocks dropped for being empty (stated for the inputs
\* without an empty text, where nothing is to be dropped).
C4_MembersAccountForInput ==
    tpc = "done" /\ EmptyBlocks(text_blocks) = {} =>
        MemberCount(unique_blocks)
            = Len(text_blocks) - Cardinality(EmptyBlocks(text_blocks))

\* C5: the output lists the clusters in the order of their founding blocks,
\* and each carries the timestamps of every block merged into it, ascending
\* (stated for the inputs without an empty text).
C5_OrderAndMergedTimestamps ==
    tpc = "done" /\ EmptyBlocks(text_blocks) = {} =>
        /\ \A i, j \in 1..Len(unique_blocks) :
             i < j => FirstOccurrence(text_blocks, unique_blocks[i].text)
                        < FirstOccurrence(text_blocks, unique_blocks[j].text)
        /\ \A i \in 1..Len(unique_blocks) :
             /\ unique_blocks[i].source_frames
                  = MergedTimestamps(text_blocks, unique_blocks[i].text)
             /\ Ascending(unique_blocks[i].source_frames)

\* C6: an output entry carries the highest confidence among the blocks
\* merged into it (stated for the inputs without an empty text).
C6_ConfidenceIsMaximum ==
    tpc = "done" /\ EmptyBlocks(text_blocks) = {} =>
        \A i \in 1..Len(unique_blocks) :
            unique_blocks[i].confidence
                = MaxConfidence(text_blocks, unique_blocks[i].text)

\* C7: a block with empty text contributes no output entry.
C7_EmptyTextDropped ==
    tpc = "done" =>
        \A i \in 1..Len(unique_blocks) : unique_blocks[i].text # <<>>

\* C8: in run and in ocr-then-analyze, no block with a confidence below the
\* configured floor reaches the deduplicator or the reconstructor.
C8_FloorAppliedBeforeDedup ==
    \A b \in Range(dedup_seen) \cup Range(recon_seen) : b.confidence >= conf_floor

\* C9: deduplicating the output again yields the same number of entries.
C9_ReapplicationStable ==
    tpc = "redone" => Len(reclustered) = Len(unique_blocks)

\* C9 witness: the output that was fed back had several entries, fewer than
\* the input, two of them near-duplicates of one another.
C9_Witness ==
    /\ tpc = "redone"
    /\ Len(unique_blocks) < Len(text_blocks)
    /\ \E i, j \in 1..Len(unique_blocks) :
         /\ i < j
         /\ AtLeast(calculate_text_similarity(unique_blocks[i].text,
                                              unique_blocks[j].text, "jaccard"),
                    dedup_config.threshold)

-----------------------------------------------------------------------------
(* Properties of the text similarity functions (SimSpec) *)

Supported == s_method \in Methods

\* C12: for every supported method, calculate_text_similarity(a, b, method)
\* and calculate_text_similarity(b, a, method) are the same score.
C12_Symmetric ==
    (spc = "compared" /\ Supported) => s_result = s_reverse

\* Two texts of different lengths with characters in common, compared by
\* edit distance: the score is strictly between 0 and 1.
C12_Witness ==
    /\ spc = "compared"
    /\ s_method = "levenshtein"
    /\ Len(clean_text(s_text1)) < Len(clean_text(s_text2))
    /\ s_result.num > 0
    /\ s_result.num < s_result.den

\* C13: for every non-empty text a, texts of whitespace only or of stripped
\* characters only included, and every supported method,
\* calculate_text_similarity(a, a, method) is 1.0.
C13_ReflexiveNonEmpty ==
    (spc = "compared" /\ Supported /\ s_text1 = s_text2 /\ s_text1 # <<>>)
        => IsOne(s_result)

\* C14: for two empty texts calculate_text_similarity returns 1.0 under
\* levenshtein and 0.0 under jaccard.
C14_EmptyPair ==
    (spc = "compared" /\ s_text1 = <<>> /\ s_text2 = <<>>)
        => /\ s_method = "levenshtein" => IsOne(s_result)
           /\ s_method = "jaccard" => IsZero(s_result)

C16_UnknownMethodRejected ==
    (spc = "compared" /\ ~Supported)
        => /\ s_error = "InvalidConfiguration"
           /\ s_result = NoScore

RECURSIVE Lev(_, _)
\* The edit distance by its recursive definition: the cheapest of deleting
\* the head of s, inserting the head of t, and matching or substituting the
\* two heads.
Lev(s, t) ==
    IF s = <<>> THEN Len(t)
    ELSE IF t = <<>> THEN Len(s)
    ELSE Min(Lev(Tail(s), t) + 1,
             Min(Lev(s, Tail(t)) + 1,
                 Lev(Tail(s), Tail(t)) + (IF Head(s) = Head(t) THEN 0 ELSE 1)))

\* C17: for texts s and t that are not both empty, _levenshtein_similarity(s, t)
\* is 1 - d(s, t) / max(len(s), len(t)), d being the edit distance.
C17_LevenshteinIsEditDistance ==
    (spc = "scored" /\ (s_text1 # <<>> \/ s_text2 # <<>>))
        => LET max_len == Max(Len(s_text1), Len(s_text2))
           IN  s_helpers.levenshtein = Score(max_len - Lev(s_text1, s_text2), max_len)

\* Two texts of different lengths at distance two or more.
C17_Witness ==
    /\ spc = "scored"
    /\ Len(s_text1) # Len(s_text2)
    /\ s_text1 # <<>> /\ s_text2 # <<>>
    /\ Lev(s_text1, s_text2) >= 2
    /\ s_helpers.levenshtein.num > 0

\* C18: _word_overlap_similarity(a, b) and _jaccard_similarity(a, b) are the
\* same number for every pair of texts, 0.0 when neither text has a word.
C18_WordOverlapIsJaccard ==
    spc = "scored"
        => /\ SameValue(s_helpers.word_overlap, s_helpers.jaccard)
           /\ (split(s_text1) = <<>> /\ split(s_text2) = <<>>)
                 => (IsZero(s_helpers.word_overlap) /\ IsZero(s_helpers.jaccard))

\* Two texts that share one word and differ in another.
C18_Witness ==
    /\ spc = "scored"
    /\ s_helpers.jaccard.num > 0
    /\ s_helpers.jaccard.num < s_helpers.jaccard.den
    /\ s_helpers.word_overlap.num > 0

IsUpper(c) == c = "A"

\* C19: the text clean_text returns has no whitespace at either end, no two
\* adjacent whitespace characters and no upper-case letter, and clean_text
\* returns it unchanged.
C19_CleanTextNormalForm ==
    spc = "normalized"
        => /\ s_clean # <<>> => (s_clean[1] \notin Whitespace
                                 /\ s_clean[Len(s_clean)] \notin Whitespace)
           /\ \A i \in 1..(Len(s_clean) - 1) :
                 ~(s_clean[i] \in Whitespace /\ s_clean[i + 1] \in Whitespace)
           /\ \A i \in 1..Len(s_clean) : ~IsUpper(s_clean[i])
           /\ s_reclean = s_clean

-----------------------------------------------------------------------------
(* Properties of deduplicate_frames on short lists (Spec) *)

\* C20: deduplicate_frames returns the empty list for the empty list, and
\* for a list of one frame returns that frame without calling
\* _calculate_frame_similarity.
C20_ShortListsUntouched ==
    fpc = "done"
        => /\ Len(frames) = 0 => unique_frames = <<>>
           /\ Len(frames) = 1 => (unique_frames = frames /\ ncompare = 0)

\* A list of one frame has been processed.
C20_Witness ==
    /\ fpc = "done"
    /\ Len(frames) = 1
    /\ unique_frames = <<frames[1]>>

\* C24: _calculate_frame_similarity is 0.0 for every pair of frames of which
\* one has an image that cannot be loaded, and deduplicate_frames goes on to
\* its end with such frames: it returns, and every such frame is kept.
C24_UnloadableScoresZero ==
    /\ \A i, j \in 1..Len(frames) :
          (j < i /\ (frames[i].id \notin readable \/ frames[j].id \notin readable))
              => _calculate_frame_similarity(frames[i], frames[j]) = 0
    /\ fpc = "done"
          => \A k \in 1..Len(frames) : frames[k].id \notin readable => Retained(k)

\* The first call has returned; a frame that could not be loaded was compared
\* and kept, and a later, loadable frame was dropped as a duplicate.
C24_Witness ==
    /\ fpc = "done" /\ phase = "first"
    /\ \E k, j \in 2..Len(frames) :
          /\ k < j
          /\ frames[k].id \notin readable
          /\ Retained(k)
          /\ frames[j].id \in readable
          /\ ~Retained(j)

\* C26: raising the threshold never decreases the number of frames
\* deduplicate_frames retains from the same list.
C26_FrameThresholdMonotone ==
    (fpc = "done" /\ phase = "raised") => Len(first_unique) <= Len(unique_frames)

\* C26, amended: for a list of at most three frames, raising the threshold
\* never decreases the number of frames deduplicate_frames retains.
C26_MonotoneUpToThreeFrames ==
    (fpc = "done" /\ phase = "raised" /\ Len(frames) <= 3)
        => Len(first_unique) <= Len(unique_frames)

\* Three frames, of which the higher threshold retains more.
C26_Witness ==
    /\ fpc = "done" /\ phase = "raised"
    /\ Len(frames) = 3
    /\ Len(first_unique) < Len(unique_frames)

\* C27: deduplicate_frames applied with the same threshold to the list it
\* returned returns that list, the same frames in the same order.
C27_FrameDedupIdempotent ==
    (fpc = "done" /\ phase = "again") => unique_frames = first_unique

\* The list given back had several frames, one of them after a frame the
\* first call dropped, and the second call compared them.
C27_Witness ==
    /\ fpc = "done" /\ phase = "again"
    /\ Len(first_unique) >= 2
    /\ first_unique[Len(first_unique)].id >= Len(first_unique)
    /\ ncompare > 0

\* C28: the list deduplicate_texts returns is a subsequence of the input, its
\* raw texts are pairwise distinct, every raw text of the input is the text of
\* one of its blocks, that block is the first block of the input with the
\* text, unchanged, and texts that differ only in case or whitespace are kept
\* as separate entries.
C28_ExactMatchFirstOccurrence ==
    tpc = "done"
        => /\ IsSubseq(unique_blocks, text_blocks)
           /\ \A i, j \in 1..Len(unique_blocks) :
                 i # j => unique_blocks[i].text # unique_blocks[j].text
           /\ {unique_blocks[j].text : j \in 1..Len(unique_blocks)}
                 = {text_blocks[i].text : i \in 1..Len(text_blocks)}
           /\ \A j \in 1..Len(unique_blocks) :
                 unique_blocks[j]
                     = text_blocks[FirstOccurrence(text_blocks, unique_blocks[j].text)]
           /\ \A i, k \in 1..Len(text_blocks) :
                 (/\ text_blocks[i].text # text_blocks[k].text
                  /\ clean_text(text_blocks[i].text) = clean_text(text_blocks[k].text))
                     => \E j, l \in 1..Len(unique_blocks) :
                           /\ j # l
                           /\ unique_blocks[j].text = text_blocks[i].text
                           /\ unique_blocks[l].text = text_blocks[k].text

\* A text occurs twice with different confidences, with the same text in
\* another case between the two occurrences.
C28_Witness ==
    /\ tpc = "done"
    /\ Len(text_blocks) = 3
    /\ text_blocks[1].text = text_blocks[3].text
    /\ text_blocks[1].confidence # text_blocks[3].confidence
    /\ text_blocks[2].text # text_blocks[1].text
    /\ clean_text(text_blocks[2].text) = clean_text(text_blocks[1].text)
    /\ Len(unique_blocks) = 2

-----------------------------------------------------------------------------
(* The commands: properties (PipelineSpec) *)

\* The calls of the data flow the spec gives for one run, for a format.
ExpectedStages(fmt) ==
    <<"extract_frames", "deduplicate_frames", "extract_text_from_video",
      "deduplicate_texts", "reconstruct_project">>
    \o (IF fmt \in {"code", "both"} THEN <<"generate_codebase">> ELSE <<>>)
    \o (IF fmt \in {"docs", "both"} THEN <<"generate_documentation">> ELSE <<>>)

\* C21: a run that completes has made the calls frame sampling, frame
\* deduplication, OCR, text deduplication, reconstruction, emission in that
\* order, the text deduplicator was given the OCR's blocks and the
\* reconstructor the deduplicated list.
C21_StagesInOrder ==
    (cmd = "run" /\ ppc = "done")
        => /\ stages = ExpectedStages(format)
           /\ dedup_seen = run_blocks
           /\ recon_seen = run_unique

\* C22: in run, once a call has raised, the command is over with exit status
\* 1, the failing call is the last one made, and status 0 is never the end of
\* a run in which a call raised.
C22_FailureAborts ==
    cmd = "run"
        => /\ failure # "none"
                => (ppc = "failed" /\ exit_code = 1 /\ stages[Len(stages)] = failure)
           /\ exit_code = 0 => failure = "none"

\* generate_codebase raised in a run that was to write documentation too.
C22_Witness ==
    /\ cmd = "run"
    /\ format = "both"
    /\ failure = "generate_codebase"
    /\ ppc = "failed"
    /\ "generate_documentation" \notin Range(stages)

\* C23: in run and build nothing is created under the output directory
\* before reconstruct_project has returned, and a command that ends in
\* failure has created nothing.
C23_NoPartialArtifacts ==
    cmd \in {"run", "build"}
        => /\ "reconstruct_project" \notin Range(stages) => artifacts = {}
           /\ ppc = "failed" => artifacts = {}

\* C29: with no <output_dir>/code/src beforehand, generate_codebase returns
\* without an exception and every file of the project has been written.
C29_CodebaseWritten ==
    (/\ cmd \in {"run", "build"}
     /\ ~src_exists
     /\ "generate_codebase" \in Range(stages))
        => /\ failure # "generate_codebase"
           /\ project # <<>> => "code_files" \in artifacts

-----------------------------------------------------------------------------
(* extract_frames: properties (ExtractSpec) *)

Earlier(t1, t2) == t1.num * t2.den < t2.num * t1.den

\* C25: the list of extract_frames is in strictly increasing timestamp order,
\* the id of each frame is its position in the list counted from 0, and the
\* list never holds more than max_frames frames.
C25_ExtractedInOrder ==
    /\ \A i \in 1..(Len(extracted) - 1) :
          Earlier(extracted[i].timestamp, extracted[i + 1].timestamp)
    /\ \A i \in 1..Len(extracted) : extracted[i].id = i - 1
    /\ Len(extracted) <= max_frames

\* The function has returned a list cut at max_frames with video left over,
\* a blurry frame having been skipped between two of its frames.
C25_Witness ==
    /\ epc = "done"
    /\ Len(extracted) >= 2
    /\ Len(extracted) = max_frames
    /\ frame_count < video_len
    /\ \E i \in 1..(Len(extracted) - 1) :
          extracted[i + 1].timestamp.num > extracted[i].timestamp.num + frame_interval

\* C30: for every fps > 0 and every rate the video reports, frame_interval is
\* at least 1 and extract_frames raises no arithmetic error.
C30_IntervalAtLeastOne ==
    (fps > 0 /\ opened)
        => /\ epc # "start" => frame_interval >= 1
           /\ raised # "ZeroDivisionError"

====
